---- MODULE Spec2Model ----
(***************************************************************************)
(* Model of src/app.py (AI To-Do App): the two stores (todos, subtasks),   *)
(* the six inbound operations, the subtask decomposer (OpenAI path and     *)
(* heuristic fallback) and translate_text with its language resolution.    *)
(*                                                                         *)
(* A Python str is a sequence of characters; a character is a one-letter   *)
(* TLA+ string, or "U+XXXX" for a non-ASCII code point.                    *)
(***************************************************************************)
EXTENDS Integers, Sequences, FiniteSets, Bags, TLC

VARIABLES todos, subtasks, OPENAI_KEY, last, handled, call, running

vars == <<todos, subtasks, OPENAI_KEY, last, handled, call, running>>

\* None, and Missing (an absent key): one-element sequences whose element is no
\* character, so that they compare with any str and equal none.
None == <<"None">>
Missing == <<"Missing">>

(***************************************************************************)
(* Python str primitives, computed as CPython computes them.               *)
(***************************************************************************)
Min(S) == CHOOSE x \in S : \A y \in S : x <= y
Max(S) == CHOOSE x \in S : \A y \in S : x >= y

\* str.strip() / str.split() whitespace and str.splitlines() boundaries
\* (the ones that occur in the modelled alphabet).
Whitespace == {" ", "\t", "\n", "\r"}
LineBreaks == {"\n", "\r"}

\* s[:n], negative n included
Take(s, n) ==
    IF n >= 0 THEN SubSeq(s, 1, IF n < Len(s) THEN n ELSE Len(s))
    ELSE SubSeq(s, 1, IF Len(s) + n > 0 THEN Len(s) + n ELSE 0)

\* s.strip(chars)
StripChars(s, chars) ==
    LET keep == {i \in 1..Len(s) : s[i] \notin chars}
    IN  IF keep = {} THEN <<>> ELSE SubSeq(s, Min(keep), Max(keep))

\* s.strip()
Strip(s) == StripChars(s, Whitespace)

\* sep in s
Contains(s, sep) ==
    \E i \in 1..(Len(s) - Len(sep) + 1) : SubSeq(s, i, i + Len(sep) - 1) = sep

\* s.split(sep): leftmost non-overlapping matches, empty pieces kept
RECURSIVE Split(_, _)
Split(s, sep) ==
    LET M == {i \in 1..(Len(s) - Len(sep) + 1) : SubSeq(s, i, i + Len(sep) - 1) = sep}
    IN  IF M = {} THEN <<s>>
        ELSE <<SubSeq(s, 1, Min(M) - 1)>>
             \o Split(SubSeq(s, Min(M) + Len(sep), Len(s)), sep)

\* s.splitlines(): "\r\n" is one boundary, no empty piece after a final boundary
RECURSIVE SplitLines(_)
SplitLines(s) ==
    IF s = <<>> THEN <<>>
    ELSE LET B == {i \in 1..Len(s) : s[i] \in LineBreaks}
         IN  IF B = {} THEN <<s>>
             ELSE LET i == Min(B)
                      j == IF s[i] = "\r" /\ i < Len(s) /\ s[i + 1] = "\n"
                           THEN i + 1 ELSE i
                  IN  <<SubSeq(s, 1, i - 1)>> \o SplitLines(SubSeq(s, j + 1, Len(s)))

\* s.split(): maximal runs of non-whitespace
RECURSIVE SplitWs(_)
SplitWs(s) ==
    LET keep == {i \in 1..Len(s) : s[i] \notin Whitespace}
    IN  IF keep = {} THEN <<>>
        ELSE LET a == Min(keep)
                 W == {i \in a..Len(s) : s[i] \in Whitespace}
                 b == IF W = {} THEN Len(s) + 1 ELSE Min(W)
             IN  <<SubSeq(s, a, b - 1)>> \o SplitWs(SubSeq(s, b, Len(s)))

\* s.lower()
UpperCase == <<"A", "B", "C", "D", "E", "F", "G", "H", "I", "J", "K", "L", "M",
               "N", "O", "P", "Q", "R", "S", "T", "U", "V", "W", "X", "Y", "Z">>
LowerCase == <<"a", "b", "c", "d", "e", "f", "g", "h", "i", "j", "k", "l", "m",
               "n", "o", "p", "q", "r", "s", "t", "u", "v", "w", "x", "y", "z">>
LowerOf ==
    [c \in {UpperCase[k] : k \in 1..Len(UpperCase)} |->
        LowerCase[CHOOSE k \in 1..Len(UpperCase) : UpperCase[k] = c]]
LowerChar(c) == IF c \in DOMAIN LowerOf THEN LowerOf[c] ELSE c
Lower(s) == [i \in 1..Len(s) |-> LowerChar(s[i])]

\* [p.strip() for p in parts if p.strip()]
StripNonEmpty(parts) ==
    SelectSeq([i \in 1..Len(parts) |-> Strip(parts[i])], LAMBDA p : p # <<>>)

(***************************************************************************)
(* generate_subtasks_fallback                                              *)
(***************************************************************************)
\* The separators of line 156.  The third literal is the six bytes
\* C3 A2 E2 82 AC E2 80 9D, which Python reads as the three characters
\* U+00E2 U+20AC U+201D, not as the em-dash U+2014.
Separators ==
    << <<":">>, <<"-">>, <<"U+00E2", "U+20AC", "U+201D">>, <<";">>, <<",">> >>

templates ==
    << <<"R","e","s","e","a","r","c","h"," ","/"," ","g","a","t","h","e","r"," ",
         "r","e","q","u","i","r","e","m","e","n","t","s">>,
       <<"B","r","e","a","k"," ","d","o","w","n"," ","t","a","s","k","s"," ",
         "a","n","d"," ","e","s","t","i","m","a","t","e"," ","t","i","m","e">>,
       <<"I","m","p","l","e","m","e","n","t"," ","m","a","i","n"," ",
         "f","u","n","c","t","i","o","n","a","l","i","t","y">>,
       <<"T","e","s","t"," ","a","n","d"," ","f","i","x"," ","b","u","g","s">>,
       <<"D","e","p","l","o","y"," ","/"," ","f","i","n","a","l","i","z","e">> >>

StartPrefix == <<"S", "t", "a", "r", "t", ":", " ">>
FirstLimit == 80
SanitizeLimit == 300

\* lines 150-152
NewlineRule(text, max_subtasks) ==
    IF Contains(text, <<"\n">>)
    THEN Take(StripNonEmpty(SplitLines(text)), max_subtasks)
    ELSE <<>>

\* lines 156-161: the for loop from separator k on
RECURSIVE SeparatorRule(_, _, _)
SeparatorRule(text, max_subtasks, k) ==
    IF k > Len(Separators) THEN <<>>
    ELSE LET sep == Separators[k]
             parts == StripNonEmpty(Split(text, sep))
         IN  IF Contains(text, sep) /\ Len(parts) > 1
             THEN Take(parts, max_subtasks)
             ELSE SeparatorRule(text, max_subtasks, k + 1)

FirstEntryVerbatim(text) ==
    IF Len(text) < FirstLimit THEN StartPrefix \o text ELSE text

\* line 173
FirstEntry(text) ==
    IF Len(text) < FirstLimit THEN StartPrefix \o text ELSE Take(text, FirstLimit)

\* lines 165-174
TemplateRule(text, max_subtasks) ==
    <<FirstEntry(text)>> \o Take(templates, max_subtasks - 1)

\* line 177
Sanitize(out, max_subtasks) ==
    Take(SelectSeq(out, LAMBDA o : o # <<>> /\ Len(o) < SanitizeLimit), max_subtasks)

generate_subtasks_fallback(rawText, max_subtasks) ==
    LET text == Strip(rawText)
        out1 == NewlineRule(text, max_subtasks)
        out2 == IF out1 = <<>> THEN SeparatorRule(text, max_subtasks, 1) ELSE out1
        out3 == IF out2 = <<>> THEN TemplateRule(text, max_subtasks) ELSE out2
    IN  Sanitize(out3, max_subtasks)

(***************************************************************************)
(* Input texts.                                                            *)
(***************************************************************************)
Rep(c, n) == [i \in 1..n |-> c]

BuyMilk == <<"B","u","y"," ","m","i","l","k",","," ","e","g","g","s",","," ","b","r","e","a","d">>
PlanTrip == <<"P","l","a","n"," ","t","h","e"," ","t","r","i","p">>
EmDashOnly == <<"P","l","a","n"," ","U+2014"," ","e","x","e","c","u","t","e">>
MojibakeOnly == <<"P","l","a","n"," ","U+00E2","U+20AC","U+201D"," ","e","x","e","c","u","t","e">>

\* All texts of at most n characters over alphabet A
TextsUpTo(A, n) == UNION {[1..k -> A] : k \in 0..n}

MaxTextLen == 3
MaxCount == 6

FallbackAlphabet == {"a", " ", "\n", ":", "-", ";", ",", "U+2014"}

FallbackTexts ==
    TextsUpTo(FallbackAlphabet, MaxTextLen)
    \cup {BuyMilk, PlanTrip, EmDashOnly, MojibakeOnly}
    \cup {Rep("a", n) : n \in {FirstLimit - 1, FirstLimit, FirstLimit + 1}}

\* int(request.form.get("max_subtasks", 5)) may be any integer
MaxCounts == (-1)..MaxCount

(***************************************************************************)
(* State.                                                                  *)
(*   todos      id -> row of table todos                                   *)
(*   subtasks   id -> row of table subtasks                                *)
(*   OPENAI_KEY whether the environment gave a non-empty key (line 32)     *)
(*   last       the last step of an inbound operation: its response, or    *)
(*              status 0 and the statement run when it has not answered    *)
(*   handled    the number of inbound operations received so far           *)
(*   running    the handlers between two of their steps (a bag)            *)
(*   call       a direct call of a utility function, and its result        *)
(***************************************************************************)
NoRows == <<>>
NoOp == [op |-> "none"]
NoCall == [fn |-> "none"]

(***************************************************************************)
(* SpecFallback: generate_subtasks_fallback called on every input.         *)
(***************************************************************************)
InitFallback ==
    /\ todos = NoRows
    /\ subtasks = NoRows
    /\ OPENAI_KEY = FALSE
    /\ last = NoOp
    /\ handled = 0
    /\ running = EmptyBag
    /\ call \in {[fn |-> "generate_subtasks_fallback", text |-> t, max_subtasks |-> n,
                  returned |-> FALSE, result |-> <<>>] :
                 t \in FallbackTexts, n \in MaxCounts}

CallFallback ==
    /\ call.fn = "generate_subtasks_fallback"
    /\ ~call.returned
    /\ call' = [call EXCEPT !.returned = TRUE,
                            !.result = generate_subtasks_fallback(call.text, call.max_subtasks)]
    /\ UNCHANGED <<todos, subtasks, OPENAI_KEY, last, handled, running>>

SpecFallback == InitFallback /\ [][CallFallback]_vars

(***************************************************************************)
(* translate_text.  The translation service is the environment: `catalog`  *)
(* is what GET /languages does and `reply` what POST /translate does.      *)
(*   catalog  [kind |-> "error"]     request, status or JSON decoding fails *)
(*            [kind |-> "json", langs |-> <<entry, ...>>]                  *)
(*            an entry is [code |-> c, name |-> n], each a str or Missing   *)
(*            (the key is absent)                                          *)
(*   reply    [kind |-> "error"]       request, status or decoding fails   *)
(*            [kind |-> "json", translatedText |-> a str or Missing]       *)
(*            [kind |-> "json_other"]  JSON that is not an object          *)
(* The result is [raised, target, value]: whether an exception left the    *)
(* function, the "target" of the payload posted (None when no request was  *)
(* posted) and the value returned.                                         *)
(***************************************************************************)
\* item.get(key, "")
GetOr(item, key, default) == IF item[key] = Missing THEN default ELSE item[key]

\* lines 192-197
FetchLangs(catalog) == IF catalog.kind = "json" THEN catalog.langs ELSE <<>>

\* line 203
EntryMatches(item, t) ==
    \/ Lower(GetOr(item, "code", <<>>)) = t
    \/ Lower(GetOr(item, "name", <<>>)) = t

\* lines 202-205: code after the loop, None when nothing matched
CatalogCode(langs, t) ==
    LET M == {i \in 1..Len(langs) : EntryMatches(langs[i], t)}
    IN  IF M = {} THEN None ELSE GetOr(langs[Min(M)], "code", None)

CodeLengths == {2, 3}

\* lines 200-217: [raised, code]
resolve_code(langs, target_lang) ==
    LET t == Lower(Strip(target_lang))
        code == CatalogCode(langs, t)
    IN  IF code # None /\ code # <<>> THEN [raised |-> FALSE, code |-> code]
        ELSE IF Len(t) \in CodeLengths THEN [raised |-> FALSE, code |-> t]
        ELSE IF SplitWs(t) = <<>> THEN [raised |-> TRUE, code |-> None]
        ELSE IF Len(SplitWs(t)[1]) \in CodeLengths
             THEN [raised |-> FALSE, code |-> SplitWs(t)[1]]
        ELSE [raised |-> FALSE, code |-> t]

\* lines 219-226
PostTranslate(reply) ==
    IF reply.kind = "json" /\ reply.translatedText # Missing
    THEN reply.translatedText ELSE None

translate_text(text, target_lang, catalog, reply) ==
    IF text = <<>> THEN [raised |-> FALSE, target |-> None, value |-> None]
    ELSE LET r == resolve_code(FetchLangs(catalog), target_lang)
         IN  IF r.raised THEN [raised |-> TRUE, target |-> None, value |-> None]
             ELSE [raised |-> FALSE, target |-> r.code, value |-> PostTranslate(reply)]

(***************************************************************************)
(* SpecTranslate: translate_text called on every input.                    *)
(***************************************************************************)
French == <<"F","r","e","n","c","h">>
XxUnknown == <<"x","x","-","u","n","k","n","o","w","n","-","l","a","n","g","u","a","g","e">>
PortugueseBrazil == <<"p","o","r","t","u","g","u","e","s","e"," ","(","b","r","a","z","i","l",")">>
PtBrazil == <<"p","t"," ","(","b","r","a","z","i","l",")">>
Bonjour == <<"B","o","n","j","o","u","r">>
Hi == <<"H","i">>

MaxLabelLen == 3
LabelAlphabet == {"f", "r", "F", " ", "x"}

Labels ==
    TextsUpTo(LabelAlphabet, MaxLabelLen)
    \cup {French, <<" ">> \o French \o <<" ">>, XxUnknown, PortugueseBrazil, PtBrazil}

Entry(c, n) == [code |-> c, name |-> n]

Catalogs ==
    { [kind |-> "error"],
      [kind |-> "json", langs |-> <<>>],
      [kind |-> "json", langs |-> <<Entry(<<"f","r">>, French)>>],
      [kind |-> "json", langs |-> <<Entry(<<"x">>, <<"f","r">>), Entry(<<"f","r">>, French)>>],
      [kind |-> "json", langs |-> <<Entry(<<"F","R">>, <<"F","R","E","N","C","H">>)>>],
      [kind |-> "json", langs |-> <<Entry(Missing, French), Entry(<<"f","r">>, Missing)>>] }

Replies ==
    { [kind |-> "error"],
      [kind |-> "json", translatedText |-> Bonjour],
      [kind |-> "json", translatedText |-> <<>>],
      [kind |-> "json", translatedText |-> Missing],
      [kind |-> "json_other"] }

InitTranslate ==
    /\ todos = NoRows
    /\ subtasks = NoRows
    /\ OPENAI_KEY = FALSE
    /\ last = NoOp
    /\ handled = 0
    /\ running = EmptyBag
    /\ call \in {[fn |-> "translate_text", text |-> x, target_lang |-> l,
                  catalog |-> c, reply |-> r, returned |-> FALSE,
                  result |-> [raised |-> FALSE, target |-> None, value |-> None]] :
                 x \in {<<>>, Hi}, l \in Labels, c \in Catalogs, r \in Replies}

CallTranslate ==
    /\ call.fn = "translate_text"
    /\ ~call.returned
    /\ call' = [call EXCEPT !.returned = TRUE,
                            !.result = translate_text(call.text, call.target_lang,
                                                      call.catalog, call.reply)]
    /\ UNCHANGED <<todos, subtasks, OPENAI_KEY, last, handled, running>>

SpecTranslate == InitTranslate /\ [][CallTranslate]_vars

(***************************************************************************)
(* generate_subtasks_via_openai.  The generation service is the            *)
(* environment; `reply` is what the POST of line 120 and the decoding of   *)
(* lines 121-128 come to:                                                  *)
(*   [kind |-> "error"]        the request, the status, the body's JSON or *)
(*                             the path choices[0].message.content fails   *)
(*   [kind |-> "json_array", items |-> <<str, ...>>]  the content is a     *)
(*                             JSON array of these strings                 *)
(*   [kind |-> "json_other"]   the content is JSON, not an array           *)
(*   [kind |-> "text", content |-> str]  the content is not JSON           *)
(* The result is [raised, value].                                          *)
(***************************************************************************)
BulletChars == {"-", " ", ".", "\t"}

\* line 133
RecoverLines(assistant_text) ==
    LET kept == SelectSeq(SplitLines(assistant_text), LAMBDA ln : Strip(ln) # <<>>)
    IN  [i \in 1..Len(kept) |-> StripChars(kept[i], BulletChars)]

generate_subtasks_via_openai(prompt, max_subtasks, reply) ==
    IF ~OPENAI_KEY \/ reply.kind \in {"error", "json_other"}
    THEN [raised |-> TRUE, value |-> <<>>]
    ELSE IF reply.kind = "json_array"
    THEN [raised |-> FALSE, value |-> StripNonEmpty(reply.items)]
    ELSE LET lines == RecoverLines(Strip(reply.content))
         IN  IF lines # <<>>
             THEN [raised |-> FALSE, value |-> Take(lines, max_subtasks)]
             ELSE [raised |-> TRUE, value |-> <<>>]

(***************************************************************************)
(* The store and the inbound operations.                                   *)
(*                                                                         *)
(* The development server answers requests in threads, and nothing in the  *)
(* source serialises the handlers: no lock is held between two statements  *)
(* a handler sends to the database.  A handler is therefore a sequence of  *)
(* steps, one per database statement (a SELECT, the statements of one      *)
(* commit, the reload of an attribute a commit expired), and any step of   *)
(* another handler may fall between two of them.  The code between two     *)
(* statements touches only the handler's own variables, the network reply  *)
(* included, and belongs to the step of the statement that follows it.     *)
(* `running` holds, for each handler between two steps, the statement it   *)
(* is at, its local variables and the attribute values its session loaded. *)
(***************************************************************************)
\* SQLite gives an INTEGER PRIMARY KEY the largest id in the table plus one
NextId(rows) == IF DOMAIN rows = {} THEN 1 ELSE Max(DOMAIN rows) + 1

Truthy(v) == v # None /\ v # <<>>

RECURSIVE Ascending(_)
Ascending(S) == IF S = {} THEN <<>> ELSE <<Min(S)>> \o Ascending(S \ {Min(S)})

RECURSIVE Descending(_)
Descending(S) == IF S = {} THEN <<>> ELSE <<Max(S)>> \o Descending(S \ {Max(S)})

\* order_by(SubTask.id), line 65
OrderById(S) == Ascending(S)

\* SubTask.to_dict
SubTask_to_dict(subs, sid) ==
    [id |-> sid, todo_id |-> subs[sid].todo_id, text |-> subs[sid].text,
     done |-> subs[sid].done]

\* ToDo.to_dict (created_at is not modelled)
ToDo_to_dict(tds, subs, id) ==
    LET order == OrderById({sid \in DOMAIN subs : subs[sid].todo_id = id})
    IN  [id |-> id, title |-> tds[id].title, description |-> tds[id].description,
         completed |-> tds[id].completed,
         translated_text |-> tds[id].translated_text,
         translated_lang |-> tds[id].translated_lang,
         subtasks |-> [k \in 1..Len(order) |-> SubTask_to_dict(subs, order[k])]]

Blank == <<"\n", "\n">>

NotCalled == <<"NotCalled">>

\* An attribute the session holds no value of: db.session.commit() expires
\* every attribute of the session's objects, and assigning one does not load it.
NoValue == <<"NO_VALUE">>
Expired == [translated_text |-> NoValue, translated_lang |-> NoValue]

\* The columns the UPDATE of the next commit sets: the assigned attributes whose
\* value differs from the one the session holds
Dirty(loaded, translated, target) ==
    {c \in {"translated_text", "translated_lang"} :
        (IF c = "translated_text" THEN translated ELSE target) # loaded[c]}

\* lines 253-256 and 333-335, on the stored row
ApplyTranslationAlways(row, loaded, translated, target) ==
    [row EXCEPT !.translated_text = translated, !.translated_lang = target]

ApplyTranslation(row, loaded, translated, target) ==
    IF Truthy(translated)
    THEN [row EXCEPT
            !.translated_text =
                IF "translated_text" \in Dirty(loaded, translated, target)
                THEN translated ELSE @,
            !.translated_lang =
                IF "translated_lang" \in Dirty(loaded, translated, target)
                THEN target ELSE @]
    ELSE row

\* The handler has run the statement `at` and has not answered yet
Proceeds(name, id, at) == [op |-> name, status |-> 0, id |-> id, at |-> at]

\* A handler starts, with its variables r
Starts(r) == running' = running (+) SetToBag({r})

\* The handler answers and its thread ends
Ends(w) == running' = running (-) SetToBag({w})

\* The handler goes on, with its variables now r
Goes(w, r) == running' = (running (-) SetToBag({w})) (+) SetToBag({r})

\* create_todo up to the first commit (lines 236-248)
create_todo(rawTitle, rawDescription, rawTarget) ==
    LET title == Strip(rawTitle)
        description == Strip(rawDescription)
        target_lang == Strip(rawTarget)
        id == NextId(todos)
        todo == [title |-> title, description |-> description, completed |-> FALSE,
                 translated_text |-> None, translated_lang |-> None]
    IN  IF title = <<>>
        THEN /\ last' = [op |-> "create_todo", status |-> 302, id |-> 0,
                         translated |-> NotCalled]
             /\ UNCHANGED <<todos, subtasks, running>>
        ELSE /\ todos' = [i \in DOMAIN todos \cup {id} |->
                            IF i # id THEN todos[i] ELSE todo]
             /\ UNCHANGED subtasks
             /\ last' = Proceeds("create_todo", id, "insert")
             /\ Starts(
                   [op |-> "create_todo",
                    at |-> IF target_lang = <<>> THEN "redirect" ELSE "translate",
                    id |-> id,
                    text |-> title \o Blank \o description,
                    target_lang |-> target_lang,
                    translated |-> NotCalled])

\* create_todo, lines 251-256, and line 259 when nothing is written: the UPDATE
\* of line 256 finds its row by id and raises StaleDataError when there is none
create_todo_translate(w, catalog, reply) ==
    LET tr == translate_text(w.text, w.target_lang, catalog, reply)
        answer(status) == [op |-> "create_todo", status |-> status, id |-> w.id,
                           translated |-> tr.value]
    IN  /\ UNCHANGED subtasks
        /\ IF tr.raised \/ w.id \notin DOMAIN todos
           THEN /\ last' = answer(500)
                /\ Ends(w)
                /\ UNCHANGED todos
           ELSE /\ todos' = [todos EXCEPT ![w.id] =
                               ApplyTranslation(@, Expired, tr.value, w.target_lang)]
                /\ IF Truthy(tr.value)
                   THEN /\ last' = Proceeds("create_todo", w.id, "update")
                        /\ Goes(w, [w EXCEPT !.at = "redirect",
                                               !.translated = tr.value])
                   ELSE /\ last' = answer(302)
                        /\ Ends(w)

\* create_todo, line 259: todo.id reloads the row the commit expired and raises
\* ObjectDeletedError when there is none
create_todo_redirect(w) ==
        /\ last' = [op |-> "create_todo",
                    status |-> IF w.id \in DOMAIN todos THEN 302 ELSE 500,
                    id |-> w.id, translated |-> w.translated]
        /\ Ends(w)
        /\ UNCHANGED <<todos, subtasks>>

\* get_or_404 aborts the request
NotFound(name) == [op |-> name, status |-> 404]

\* toggle_complete, line 270
toggle_complete(todo_id) ==
    /\ UNCHANGED <<todos, subtasks>>
    /\ IF todo_id \notin DOMAIN todos
       THEN last' = NotFound("toggle_complete") /\ UNCHANGED running
       ELSE /\ last' = Proceeds("toggle_complete", todo_id, "select")
            /\ Starts(
                  [op |-> "toggle_complete", at |-> "commit", id |-> todo_id,
                   completed |-> todos[todo_id].completed])

\* toggle_complete, lines 271-273: the negation of the value read, written by an
\* UPDATE that raises StaleDataError when it finds no row
toggle_complete_commit(w) ==
        /\ Ends(w)
        /\ UNCHANGED subtasks
        /\ IF w.id \notin DOMAIN todos
           THEN /\ last' = [op |-> "toggle_complete", status |-> 500, id |-> w.id]
                /\ UNCHANGED todos
           ELSE /\ todos' = [todos EXCEPT ![w.id].completed = ~w.completed]
                /\ last' = [op |-> "toggle_complete", status |-> 302, id |-> w.id]

Digits == <<"0", "1", "2", "3", "4", "5", "6", "7", "8", "9">>

DigitValue(c) == (CHOOSE i \in 1..10 : Digits[i] = c) - 1

RECURSIVE DecimalValue(_)
DecimalValue(ds) ==
    IF ds = <<>> THEN 0
    ELSE 10 * DecimalValue(SubSeq(ds, 1, Len(ds) - 1)) + DigitValue(ds[Len(ds)])

\* int(str): whitespace around the literal is dropped; the literal is an
\* optional sign and decimal digits, single underscores allowed between digits;
\* anything else raises ValueError.  [raised, value]
int(v) ==
    LET s == Strip(v)
        signed == s # <<>> /\ s[1] \in {"+", "-"}
        body == IF signed THEN Tail(s) ELSE s
        wellFormed ==
            /\ body # <<>>
            /\ \A i \in 1..Len(body) : body[i] \in {Digits[j] : j \in 1..10} \cup {"_"}
            /\ body[1] # "_"
            /\ body[Len(body)] # "_"
            /\ \A i \in 1..(Len(body) - 1) : ~(body[i] = "_" /\ body[i + 1] = "_")
        magnitude == DecimalValue(SelectSeq(body, LAMBDA c : c # "_"))
    IN  IF ~wellFormed THEN [raised |-> TRUE, value |-> 0]
        ELSE [raised |-> FALSE,
              value |-> IF signed /\ s[1] = "-" THEN 0 - magnitude ELSE magnitude]

DefaultMaxSubtasks == 5

\* line 279: int(request.form.get("max_subtasks", 5))
FormMaxSubtasks(form) ==
    IF form = Missing THEN [raised |-> FALSE, value |-> DefaultMaxSubtasks]
    ELSE int(form)

\* line 280
SourceText(todo) ==
    todo.title \o <<".", " ">>
    \o (IF todo.description = None THEN <<>> ELSE todo.description)

\* lines 282-291: [path, value]
ObtainSubtasks(source_text, max_n, reply) ==
    LET primary == generate_subtasks_via_openai(source_text, max_n, reply)
    IN  IF OPENAI_KEY /\ ~primary.raised
        THEN [path |-> "openai", value |-> primary.value]
        ELSE [path |-> "fallback",
              value |-> generate_subtasks_fallback(source_text, max_n)]

\* lines 294-297: one row per entry, in order
InsertSubtasks(subs, todo_id, texts) ==
    LET first == NextId(subs)
        new == first..(first + Len(texts) - 1)
    IN  [i \in DOMAIN subs \cup new |->
            IF i \in DOMAIN subs THEN subs[i]
            ELSE [todo_id |-> todo_id, text |-> texts[i - first + 1], done |-> FALSE]]

\* generate_subtasks, lines 276-280
generate_subtasks(todo_id, form) ==
    /\ UNCHANGED <<todos, subtasks>>
    /\ IF todo_id \notin DOMAIN todos
       THEN last' = NotFound("generate_subtasks") /\ UNCHANGED running
       ELSE LET max_n == FormMaxSubtasks(form)
                source_text == SourceText(todos[todo_id])
            IN  IF max_n.raised
                THEN /\ last' = [op |-> "generate_subtasks", status |-> 500,
                                 id |-> todo_id, source_text |-> source_text,
                                 max_n |-> 0, path |-> "none", out |-> <<>>]
                     /\ UNCHANGED running
                ELSE /\ last' = Proceeds("generate_subtasks", todo_id, "select")
                     /\ Starts(
                           [op |-> "generate_subtasks", at |-> "save", id |-> todo_id,
                            source_text |-> source_text, max_n |-> max_n.value,
                            path |-> "none", out |-> <<>>])

\* generate_subtasks, lines 282-297: the rows are committed with the id the
\* session loaded; the table has no enforced foreign key
generate_subtasks_save(w, reply) ==
    LET got == ObtainSubtasks(w.source_text, w.max_n, reply)
    IN  /\ subtasks' = InsertSubtasks(subtasks, w.id, got.value)
        /\ UNCHANGED todos
        /\ last' = [op |-> "generate_subtasks", status |-> 0, id |-> w.id, at |-> "save",
                    source_text |-> w.source_text, max_n |-> w.max_n,
                    path |-> got.path, out |-> got.value]
        /\ Goes(w, [w EXCEPT !.at = "redirect", !.path = got.path,
                             !.out = got.value])

\* generate_subtasks, lines 298-299: todo.id reloads the row the commit expired
\* and raises ObjectDeletedError when there is none
generate_subtasks_redirect(w) ==
        /\ last' = [op |-> "generate_subtasks",
                    status |-> IF w.id \in DOMAIN todos THEN 302 ELSE 500,
                    id |-> w.id, source_text |-> w.source_text, max_n |-> w.max_n,
                    path |-> w.path, out |-> w.out]
        /\ Ends(w)
        /\ UNCHANGED <<todos, subtasks>>

\* toggle_subtask, line 304
toggle_subtask(subtask_id) ==
    /\ UNCHANGED <<todos, subtasks>>
    /\ IF subtask_id \notin DOMAIN subtasks
       THEN last' = NotFound("toggle_subtask") /\ UNCHANGED running
       ELSE /\ last' = Proceeds("toggle_subtask", subtask_id, "select")
            /\ Starts(
                  [op |-> "toggle_subtask", at |-> "commit", id |-> subtask_id,
                   done |-> subtasks[subtask_id].done])

\* toggle_subtask, lines 305-306
toggle_subtask_commit(w) ==
        /\ UNCHANGED todos
        /\ IF w.id \notin DOMAIN subtasks
           THEN /\ last' = [op |-> "toggle_subtask", status |-> 500, id |-> w.id]
                /\ Ends(w)
                /\ UNCHANGED subtasks
           ELSE /\ subtasks' = [subtasks EXCEPT ![w.id].done = ~w.done]
                /\ last' = Proceeds("toggle_subtask", w.id, "update")
                /\ Goes(w, [w EXCEPT !.at = "redirect"])

\* toggle_subtask, line 307: st.todo_id reloads the row the commit expired
toggle_subtask_redirect(w) ==
        /\ last' = [op |-> "toggle_subtask",
                    status |-> IF w.id \in DOMAIN subtasks THEN 302 ELSE 500,
                    id |-> w.id]
        /\ Ends(w)
        /\ UNCHANGED <<todos, subtasks>>

Restrict(rows, keep) == [i \in keep |-> rows[i]]

\* cascade="all, delete-orphan", line 54: the subtasks that db.session.delete
\* loads and marks for deletion
Cascade(subs, todo_id) == {sid \in DOMAIN subs : subs[sid].todo_id = todo_id}

\* delete_todo, line 312
delete_todo(todo_id) ==
    /\ UNCHANGED <<todos, subtasks>>
    /\ IF todo_id \notin DOMAIN todos
       THEN last' = NotFound("delete_todo") /\ UNCHANGED running
       ELSE /\ last' = Proceeds("delete_todo", todo_id, "select")
            /\ Starts(
                  [op |-> "delete_todo", at |-> "cascade", id |-> todo_id,
                   children |-> {}])

\* delete_todo, line 313
delete_todo_cascade(w) ==
        /\ last' = Proceeds("delete_todo", w.id, "cascade")
        /\ Goes(w, [w EXCEPT !.at = "commit",
                             !.children = Cascade(subtasks, w.id)])
        /\ UNCHANGED <<todos, subtasks>>

\* delete_todo, lines 314-316: one DELETE by id for each subtask loaded and one
\* for the item; a DELETE that finds no row only warns
delete_todo_commit(w) ==
        /\ todos' = Restrict(todos, DOMAIN todos \ {w.id})
        /\ subtasks' = Restrict(subtasks, DOMAIN subtasks \ w.children)
        /\ last' = [op |-> "delete_todo", status |-> 302, id |-> w.id]
        /\ Ends(w)

\* A JSON value that is no string (null, a number, a list, an object, a bool)
NonString == <<"NonString">>

(***************************************************************************)
(* The body of a translate request, as request.get_json(force=True) and    *)
(* line 327 see it:                                                        *)
(*   [kind |-> "invalid"]   not JSON: get_json aborts with 400             *)
(*   [kind |-> "other"]     JSON that is no object: data.get raises        *)
(*   [kind |-> "object", target |-> a str, NonString, or Missing]          *)
(***************************************************************************)
\* api_translate, lines 319-329
api_translate(todo_id, body) ==
    /\ UNCHANGED <<todos, subtasks>>
    /\ IF todo_id \notin DOMAIN todos
       THEN last' = NotFound("api_translate") /\ UNCHANGED running
       ELSE IF body.kind = "invalid"
       THEN /\ last' = [op |-> "api_translate", status |-> 400, id |-> todo_id,
                        target |-> Missing, translated |-> NotCalled]
            /\ UNCHANGED running
       ELSE IF body.kind # "object"
       THEN /\ last' = [op |-> "api_translate", status |-> 500, id |-> todo_id,
                        target |-> Missing, translated |-> NotCalled]
            /\ UNCHANGED running
       ELSE IF body.target = NonString
       THEN /\ last' = [op |-> "api_translate", status |-> 500, id |-> todo_id,
                        target |-> NonString, translated |-> NotCalled]
            /\ UNCHANGED running
       ELSE LET target == Strip(GetOr(body, "target", <<>>))
                todo == todos[todo_id]
            IN  IF target = <<>>
                THEN /\ last' = [op |-> "api_translate", status |-> 400, id |-> todo_id,
                                 target |-> target, translated |-> NotCalled]
                     /\ UNCHANGED running
                ELSE /\ last' = Proceeds("api_translate", todo_id, "select")
                     /\ Starts(
                           [op |-> "api_translate", at |-> "commit", id |-> todo_id,
                            text |-> todo.title \o Blank
                                     \o (IF todo.description = None THEN <<>>
                                         ELSE todo.description),
                            target |-> target,
                            loaded |-> [translated_text |-> todo.translated_text,
                                        translated_lang |-> todo.translated_lang]])

\* api_translate, lines 330-336.  The commit of line 335 sends an UPDATE only
\* for attributes whose value changed in the session; the UPDATE finds its row
\* by id and raises StaleDataError when there is none.
api_translate_commit(w, catalog, reply) ==
    LET tr == translate_text(w.text, w.target, catalog, reply)
        answer(status) == [op |-> "api_translate", status |-> status, id |-> w.id,
                           target |-> w.target, translated |-> tr.value]
    IN  /\ Ends(w)
        /\ UNCHANGED subtasks
        /\ IF tr.raised \/ ~Truthy(tr.value)
           THEN last' = answer(500) /\ UNCHANGED todos
           ELSE IF w.id \notin DOMAIN todos
           THEN /\ last' = answer(IF Dirty(w.loaded, tr.value, w.target) # {}
                                  THEN 500 ELSE 200)
                /\ UNCHANGED todos
           ELSE /\ todos' = [todos EXCEPT ![w.id] =
                               ApplyTranslation(@, w.loaded, tr.value, w.target)]
                /\ last' = answer(200)

(***************************************************************************)
(* Spec: the application under every interleaving of inbound operations.   *)
(***************************************************************************)
Plan == <<"P","l","a","n">>
BuyMilkTitle == <<"B","u","y"," ","m","i","l","k">>
EggsBread == <<"e","g","g","s",","," ","b","r","e","a","d">>

\* (title, description) as typed in the form
FormItems ==
    { <<<<" ">>, <<>>>>,
      <<BuyMilkTitle, EggsBread>> }

FormTargets == {<<>>, French \o <<" ">>}

ApiBodies ==
    { [kind |-> "invalid"],
      [kind |-> "other"],
      [kind |-> "object", target |-> Missing],
      [kind |-> "object", target |-> NonString],
      [kind |-> "object", target |-> <<" ">>],
      [kind |-> "object", target |-> <<"f", "r">>] }

MaxTodoId == 2
MaxSubtaskId == 3
MaxGenerate == 2
MaxRequests == 3
MaxRunning == 2
GenerateCounts == 1..MaxGenerate

\* str(n), for the form field
RECURSIVE Decimal(_)
Decimal(n) ==
    IF n < 0 THEN <<"-">> \o Decimal(0 - n)
    ELSE IF n < 10 THEN <<Digits[n + 1]>>
    ELSE Decimal(n \div 10) \o <<Digits[(n % 10) + 1]>>

\* The form's max_subtasks field
FormCounts == {Decimal(n) : n \in GenerateCounts} \cup {<<"a", "b", "c">>}

GenReplies ==
    { [kind |-> "error"],
      [kind |-> "json_array", items |-> <<>>],
      [kind |-> "json_array", items |-> << <<"x">>, <<" ">>, <<"y">> >>] }

\* What the translation service does during one request: <<catalog, reply>>
TranslationServices ==
    { <<[kind |-> "error"], [kind |-> "error"]>>,
      <<[kind |-> "json", langs |-> <<Entry(<<"f","r">>, French)>>],
        [kind |-> "json", translatedText |-> Bonjour]>>,
      <<[kind |-> "json", langs |-> <<Entry(<<"f","r">>, French)>>],
        [kind |-> "json", translatedText |-> <<>>]>> }

\* A service that the handler never calls
Uncalled == [kind |-> "error"]

Init ==
    /\ todos = NoRows
    /\ subtasks = NoRows
    /\ OPENAI_KEY \in BOOLEAN
    /\ last = NoOp
    /\ handled = 0
    /\ call = NoCall
    /\ running = EmptyBag

\* A request arrives; the guards keep the run and the number of running
\* handlers bounded
Handle ==
    /\ handled < MaxRequests
    /\ handled' = handled + 1
    /\ BagCardinality(running') <= MaxRunning
    /\ UNCHANGED <<OPENAI_KEY, call>>

\* A running handler takes its next step
Resume == UNCHANGED <<OPENAI_KEY, call, handled>>

At(w, name, at) == w.op = name /\ w.at = at

CreateTodo ==
    /\ handled < MaxRequests
    /\ NextId(todos) <= MaxTodoId
    /\ \E f \in FormItems, t \in FormTargets : create_todo(f[1], f[2], t)
    /\ Handle

CreateTodoTranslate ==
    /\ \E w \in BagToSet(running) :
         /\ At(w, "create_todo", "translate")
         /\ \E s \in TranslationServices : create_todo_translate(w, s[1], s[2])
    /\ Resume

CreateTodoRedirect ==
    /\ \E w \in BagToSet(running) :
         At(w, "create_todo", "redirect") /\ create_todo_redirect(w)
    /\ Resume

ToggleComplete ==
    /\ handled < MaxRequests
    /\ \E id \in 1..MaxTodoId : toggle_complete(id)
    /\ Handle

ToggleCompleteCommit ==
    /\ \E w \in BagToSet(running) :
         At(w, "toggle_complete", "commit") /\ toggle_complete_commit(w)
    /\ Resume

GenerateSubtasks ==
    /\ handled < MaxRequests
    /\ \E id \in 1..MaxTodoId, form \in FormCounts : generate_subtasks(id, form)
    /\ Handle

GenerateSubtasksSave ==
    /\ \E w \in BagToSet(running) :
         /\ At(w, "generate_subtasks", "save")
         /\ \E r \in IF OPENAI_KEY THEN GenReplies ELSE {Uncalled} :
               generate_subtasks_save(w, r)
         /\ NextId(subtasks') <= MaxSubtaskId + 1
    /\ Resume

GenerateSubtasksRedirect ==
    /\ \E w \in BagToSet(running) :
         At(w, "generate_subtasks", "redirect") /\ generate_subtasks_redirect(w)
    /\ Resume

ToggleSubtask ==
    /\ handled < MaxRequests
    /\ \E sid \in 1..MaxSubtaskId : toggle_subtask(sid)
    /\ Handle

ToggleSubtaskCommit ==
    /\ \E w \in BagToSet(running) :
         At(w, "toggle_subtask", "commit") /\ toggle_subtask_commit(w)
    /\ Resume

ToggleSubtaskRedirect ==
    /\ \E w \in BagToSet(running) :
         At(w, "toggle_subtask", "redirect") /\ toggle_subtask_redirect(w)
    /\ Resume

DeleteTodo ==
    /\ handled < MaxRequests
    /\ \E id \in 1..MaxTodoId : delete_todo(id)
    /\ Handle

DeleteTodoCascade ==
    /\ \E w \in BagToSet(running) :
         At(w, "delete_todo", "cascade") /\ delete_todo_cascade(w)
    /\ Resume

DeleteTodoCommit ==
    /\ \E w \in BagToSet(running) :
         At(w, "delete_todo", "commit") /\ delete_todo_commit(w)
    /\ Resume

ApiTranslate ==
    /\ handled < MaxRequests
    /\ \E id \in 1..MaxTodoId, b \in ApiBodies : api_translate(id, b)
    /\ Handle

ApiTranslateCommit ==
    /\ \E w \in BagToSet(running) :
         /\ At(w, "api_translate", "commit")
         /\ \E s \in TranslationServices : api_translate_commit(w, s[1], s[2])
    /\ Resume

Next ==
    \/ CreateTodo
    \/ CreateTodoTranslate
    \/ CreateTodoRedirect
    \/ ToggleComplete
    \/ ToggleCompleteCommit
    \/ GenerateSubtasks
    \/ GenerateSubtasksSave
    \/ GenerateSubtasksRedirect
    \/ ToggleSubtask
    \/ ToggleSubtaskCommit
    \/ ToggleSubtaskRedirect
    \/ DeleteTodo
    \/ DeleteTodoCascade
    \/ DeleteTodoCommit
    \/ ApiTranslate
    \/ ApiTranslateCommit

Spec == Init /\ [][Next]_vars

(***************************************************************************)
(* SpecGenerate: generate_subtasks on one stored item, for every item,     *)
(* form value and behaviour of the generation service.                     *)
(***************************************************************************)
\* (title, description) as create_todo stores them
StoredItems ==
    { <<Plan, <<>>>>,
      <<BuyMilkTitle, EggsBread>>,
      <<<<"T">>, <<"a", "\n", "b">>>>,
      <<Rep("a", FirstLimit), <<>>>>,
      <<<<"T">>, Rep("a", SanitizeLimit) \o <<",", "b">>>> }

WideGenReplies ==
    GenReplies
    \cup { [kind |-> "json_other"],
           [kind |-> "text", content |-> <<"-", " ", "x", "\n", "-", "-", "-">>],
           [kind |-> "json_array", items |-> << <<"x">>, <<"y">>, <<"z">>, <<"w">> >>],
           [kind |-> "json_array", items |-> <<Rep("z", SanitizeLimit)>>],
           [kind |-> "text", content |-> <<>>],
           [kind |-> "text", content |-> <<"1", ".", " ", "x", "\n", " ", "\n", "2", ".", " ", "y">>] }

WideFormCounts ==
    {Decimal(n) : n \in 0..MaxCount}
    \cup {Missing, <<>>, <<"a", "b", "c">>, <<"1", ".", "5">>, <<" ", "2", "\n">>}

InitGenerate ==
    /\ \E f \in StoredItems :
          todos = [i \in {1} |-> [title |-> f[1], description |-> f[2],
                                  completed |-> FALSE, translated_text |-> None,
                                  translated_lang |-> None]]
    /\ subtasks = NoRows
    /\ OPENAI_KEY \in BOOLEAN
    /\ last = [op |-> "create_todo", status |-> 302, id |-> 1, translated |-> NotCalled]
    /\ handled = 1
    /\ call = NoCall
    /\ running = EmptyBag

GenerateOnce ==
    /\ last.op = "create_todo"
    /\ \E form \in WideFormCounts : generate_subtasks(1, form)
    /\ handled' = handled + 1
    /\ UNCHANGED <<OPENAI_KEY, call>>

GenerateOnceSave ==
    /\ \E w \in BagToSet(running) :
         /\ At(w, "generate_subtasks", "save")
         /\ \E r \in IF OPENAI_KEY THEN WideGenReplies ELSE {Uncalled} :
               generate_subtasks_save(w, r)
    /\ Resume

NextGenerate == GenerateOnce \/ GenerateOnceSave \/ GenerateSubtasksRedirect

SpecGenerate == InitGenerate /\ [][NextGenerate]_vars

(***************************************************************************)
(* Claims.                                                                 *)
(***************************************************************************)
Generated == last.op = "generate_subtasks" /\ last.status = 302

\* C1: whatever the item text, the maximum count and the generation service's
\* behaviour, the list generate_subtasks obtains from the decomposer has at most
\* max_n entries, each non-empty and shorter than 300 characters.
C1_DecomposerContract ==
    Generated =>
        /\ Len(last.out) <= last.max_n
        /\ \A k \in 1..Len(last.out) :
              last.out[k] # <<>> /\ Len(last.out[k]) < SanitizeLimit

\* C2: for an existing item and max_n >= 1, generate_subtasks adds at least one
\* subtask, whatever the generation service does.
C2_AlwaysProducesOutput ==
    (Generated /\ last.max_n >= 1) =>
        /\ Len(last.out) >= 1
        /\ \E sid \in DOMAIN subtasks : subtasks[sid].todo_id = last.id

Returned(fn) == call.fn = fn /\ call.returned

Unreachable(c) ==
    c.catalog.kind = "error" /\ c.reply.kind = "error"

\* C3: translate_text never raises; it returns a string or nothing, and nothing
\* when the translation service is unreachable for both requests.
C3_TranslateNeverRaises ==
    Returned("translate_text") =>
        /\ ~call.result.raised
        /\ Unreachable(call) => call.result.value = None

\* The resolution order as the specification words it
ClaimedFirstToken(t) == IF SplitWs(t) = <<>> THEN <<>> ELSE SplitWs(t)[1]

ClaimedCode(langs, label) ==
    LET t == Lower(Strip(label))
        M == {i \in 1..Len(langs) :
                \/ langs[i].code # Missing /\ Lower(langs[i].code) = t
                \/ langs[i].name # Missing /\ Lower(langs[i].name) = t}
    IN  IF M # {} /\ langs[Min(M)].code \notin {Missing, <<>>}
        THEN langs[Min(M)].code
        ELSE IF Len(t) \in {2, 3} THEN t
        ELSE IF Len(ClaimedFirstToken(t)) \in {2, 3} THEN ClaimedFirstToken(t)
        ELSE t

\* C8: for every catalog and label, a call that translates a text resolves the
\* target code in the specified order, and does not raise.
C8_ResolutionOrder ==
    (Returned("translate_text") /\ call.text # <<>>) =>
        /\ ~call.result.raised
        /\ call.result.target = ClaimedCode(FetchLangs(call.catalog), call.target_lang)

\* The separators as the specification lists them: the third is the em-dash
ClaimedSeparators == << <<":">>, <<"-">>, <<"U+2014">>, <<";">>, <<",">> >>

Segments(text, sep) == StripNonEmpty(Split(text, sep))

\* C9: for a text without newlines, the result is the trimmed non-empty segments,
\* truncated to max_subtasks, of the split on the first of colon, hyphen,
\* em-dash, semicolon, comma that is present and yields more than one segment.
C9_SeparatorOrder ==
    (/\ Returned("generate_subtasks_fallback")
     /\ ~Contains(call.text, <<"\n">>)
     /\ call.max_subtasks >= 0) =>
        LET K == {k \in 1..Len(ClaimedSeparators) :
                    /\ Contains(call.text, ClaimedSeparators[k])
                    /\ Len(Segments(call.text, ClaimedSeparators[k])) > 1}
        IN  K # {} =>
              call.result = SubSeq(Segments(call.text, ClaimedSeparators[Min(K)]), 1,
                                   Min({call.max_subtasks,
                                        Len(Segments(call.text, ClaimedSeparators[Min(K)]))}))

\* No rule of lines 150-161 yields more than one non-empty segment
NoRuleSplits(text) ==
    /\ ~Contains(text, <<"\n">>)
    /\ \A k \in 1..Len(Separators) :
          ~(Contains(text, Separators[k]) /\ Len(Segments(text, Separators[k])) > 1)

FixedSequence(first) == <<first>> \o templates

FirstN(s, n) == SubSeq(s, 1, Min({n, Len(s)}))

TemplateCase ==
    /\ Returned("generate_subtasks_fallback")
    /\ NoRuleSplits(Strip(call.text))
    /\ call.max_subtasks >= 0

\* C10 as stated: in the template case the first entry is "Start: <text>" for a
\* trimmed text under 80 characters and the raw text, unmodified, otherwise.
C10_TemplateRawText ==
    TemplateCase =>
        call.result =
            FirstN(FixedSequence(IF Len(Strip(call.text)) < 80
                                 THEN StartPrefix \o Strip(call.text)
                                 ELSE call.text),
                   call.max_subtasks)

\* C10 amended: in the template case, for max_subtasks >= 0, the result is the
\* first max_subtasks entries of [first] + templates, where first is
\* "Start: <text>" for a trimmed text under 80 characters and the first 80
\* characters of the trimmed text otherwise.
C10_TemplateFirst80 ==
    TemplateCase =>
        call.result =
            FirstN(FixedSequence(IF Len(Strip(call.text)) < 80
                                 THEN StartPrefix \o Strip(call.text)
                                 ELSE SubSeq(Strip(call.text), 1, 80)),
                   call.max_subtasks)

C10_Witness ==
    /\ TemplateCase
    /\ Len(call.text) > 80
    /\ call.max_subtasks = 3
    /\ Len(call.result) = 3
    /\ Len(call.result[1]) = 80
    /\ call.result[3] = templates[2]

\* A create_todo or api_translate request answered after translate_text
\* returned nothing
TranslationFailed(r) ==
    /\ r.op \in {"create_todo", "api_translate"}
    /\ r.status \notin {0, 404}
    /\ r.translated = None

\* C4: when translate_text returns nothing during create_todo or api_translate,
\* the handler writes nothing after the call: the item's translated_text and
\* translated_lang stay as they were (unset for the item create_todo inserted
\* before the call), and no other item and no subtask changes.
C4_FailedTranslationFrame ==
    [][/\ TranslationFailed(last') => (todos' = todos /\ subtasks' = subtasks)
       /\ (last'.op = "create_todo" /\ last'.status = 0 /\ last'.at = "insert") =>
             /\ subtasks' = subtasks
             /\ last'.id \notin DOMAIN todos
             /\ DOMAIN todos' = DOMAIN todos \cup {last'.id}
             /\ \A i \in DOMAIN todos : todos'[i] = todos[i]
             /\ todos'[last'.id].translated_text = None
             /\ todos'[last'.id].translated_lang = None]_vars

C4_Witness ==
    /\ last.op = "api_translate"
    /\ last.status = 500
    /\ last.translated = None
    /\ last.id \in DOMAIN todos
    /\ todos[last.id].translated_text = Bonjour
    /\ todos[last.id].translated_lang = French
    /\ last.target # French

\* C5: generate_subtasks on an existing item always succeeds, and api_translate
\* on an existing item ends with an error only for a missing or blank target.
C5_OnlyBlankTargetFails ==
    /\ (last.op = "generate_subtasks" /\ last.status \notin {0, 404}) =>
          last.status = 302
    /\ (last.op = "api_translate" /\ last.status \notin {0, 404}) =>
          (last.status >= 400 <=> last.target \in {<<>>, Missing})

OwnersResolve ==
    \A sid \in DOMAIN subtasks : subtasks[sid].todo_id \in DOMAIN todos

DeleteRemovesItemAndSubtasks ==
    (last'.op = "delete_todo" /\ last'.status = 302) =>
        /\ DOMAIN todos' = DOMAIN todos \ {last'.id}
        /\ \A i \in DOMAIN todos' : todos'[i] = todos[i]
        /\ DOMAIN subtasks' = {sid \in DOMAIN subtasks : subtasks[sid].todo_id # last'.id}
        /\ \A sid \in DOMAIN subtasks' : subtasks'[sid] = subtasks[sid]

\* C6: every stored subtask's todo_id is the id of a stored item, and delete_todo
\* removes the item and exactly its subtasks, leaving every other row unchanged.
C6_SubtasksOwned == []OwnersResolve /\ [][DeleteRemovesItemAndSubtasks]_vars

\* generate_subtasks committed its rows for an item that is stored
Saved(r) ==
    /\ r.op = "generate_subtasks"
    /\ r.status = 0
    /\ r.at = "save"
    /\ r.id \in DOMAIN todos

\* C7: to_dict lists an item's subtasks by ascending id; generate_subtasks appends
\* the obtained strings (the fallback's output when the fallback ran) in order,
\* each with done = FALSE, after the existing subtasks, which it leaves as they
\* were.
C7_AppendInOrder ==
    [][Saved(last') =>
         LET id == last'.id
             before == ToDo_to_dict(todos, subtasks, id).subtasks
             after == ToDo_to_dict(todos', subtasks', id).subtasks
             texts == IF last'.path = "fallback"
                      THEN generate_subtasks_fallback(last'.source_text, last'.max_n)
                      ELSE last'.out
         IN  /\ Len(after) = Len(before) + Len(texts)
             /\ \A k \in 1..Len(before) : after[k] = before[k]
             /\ \A k \in 1..Len(texts) :
                   /\ after[Len(before) + k].text = texts[k]
                   /\ after[Len(before) + k].done = FALSE
             /\ \A k \in 1..(Len(after) - 1) : after[k].id < after[k + 1].id]_vars

C7_Witness ==
    /\ Saved(last)
    /\ last.path = "fallback"
    /\ Len(last.out) = 2
    /\ LET listed == ToDo_to_dict(todos, subtasks, last.id).subtasks
       IN  /\ Len(listed) = 3
           /\ <<listed[2].text, listed[3].text>> = last.out
           /\ listed[2].text # listed[3].text

====
